---- MODULE Spec2Model ----
(***************************************************************************)
(* Graph traversal utilities of model-optimizer/mo/utils/graph.py:         *)
(* backward_bfs_for_operation, dfs, pseudo_topological_sort,               *)
(* sub_graph_between_nodes and node_neighbourhood, each as a state machine *)
(* over a small directed multigraph.                                       *)
(***************************************************************************)
EXTENDS Integers, Sequences, FiniteSets, TLC

\* ------------------------------------------------------------------ bounds
NumNodes == 3
MaxEdges == 3
MaxStart == 2
MaxEnd == 2
MaxDepth == 2
MaxQueue == 4

\* ------------------------------------------------------------------- graph
\* Node ids are 1..NumNodes; None stands for Python's None.
Nodes == 1..NumNodes
None == 0

Range(s) == {s[i] : i \in 1..Len(s)}

SeqsUpTo(S, n) == UNION {[1..k -> S] : k \in 0..n}

DistinctSeqsUpTo(S, n) == {s \in SeqsUpTo(S, n) : \A i, j \in 1..Len(s) : s[i] = s[j] => i = j}

\* A graph is the list of its edges <<src, dst>> in enumeration order; parallel
\* edges and self loops are allowed (nx.MultiDiGraph).
Graphs == SeqsUpTo(Nodes \X Nodes, MaxEdges)

\* Lists of different nodes: the argument lists.
NodeLists(n) == DistinctSeqsUpTo(Nodes, n)
StartLists == NodeLists(MaxStart)
EndLists == NodeLists(MaxEnd)

RECURSIVE OrderingsOf(_)
\* The lists that hold every element of S once.
OrderingsOf(S) ==
    IF S = {} THEN {<<>>}
    ELSE UNION {{<<x>> \o l : l \in OrderingsOf(S \ {x})} : x \in S}

\* Node attributes: kind, op and value.
OpNode(o) == [kind |-> "op", op |-> o, value |-> "None"]
DataNode(v) == [kind |-> "data", op |-> "None", value |-> v]

RECURSIVE SelectDst(_, _)
\* graph.out_edges(node_name): destinations of the edges leaving node_name.
SelectDst(graph, node_name) ==
    IF graph = <<>> THEN <<>>
    ELSE LET e == Head(graph) IN
         IF e[1] = node_name THEN <<e[2]>> \o SelectDst(Tail(graph), node_name)
         ELSE SelectDst(Tail(graph), node_name)

out_edges(graph, node_name) == SelectDst(graph, node_name)

RECURSIVE SelectSrc(_, _)
\* graph.in_edges(node_name): sources of the edges entering node_name.
SelectSrc(graph, node_name) ==
    IF graph = <<>> THEN <<>>
    ELSE LET e == Head(graph) IN
         IF e[2] = node_name THEN <<e[1]>> \o SelectSrc(Tail(graph), node_name)
         ELSE SelectSrc(Tail(graph), node_name)

in_edges(graph, node_name) == SelectSrc(graph, node_name)

VARIABLES
    edges,            \* the graph's edge list
    attrs,            \* node id -> attributes
    pc,               \* position in the running function
    result,           \* what the function returned or raised
    start_nodes, end_nodes, sub_graph_nodes, d, prev,   \* sub_graph_between_nodes
    visited,          \* sub_graph_between_nodes / dfs / pseudo_topological_sort
    start_node, op_names, ret, q, node,                 \* backward_bfs_for_operation
    node_name, visited0, stack, order,                  \* dfs (visited0: visited at call time)
    reverse, nodes_without_inputs,                      \* pseudo_topological_sort
    depth, next_node_fn, dist, deq                      \* node_neighbourhood

graphVars == <<edges, attrs>>
subVars == <<start_nodes, end_nodes, sub_graph_nodes, d, prev>>
backVars == <<start_node, op_names, ret, q, node>>
dfsVars == <<node_name, visited0, stack, order>>
topoVars == <<reverse, nodes_without_inputs>>
nbrVars == <<depth, next_node_fn, dist, deq>>
vars == <<graphVars, pc, result, visited, subVars, backVars, dfsVars, topoVars, nbrVars>>

NoResult == [status |-> "none", error |-> "none", node |-> None, nodes |-> <<>>]
Returned(ns) == [status |-> "ok", error |-> "none", node |-> None, nodes |-> ns]
Raised(err, n) == [status |-> "error", error |-> err, node |-> n, nodes |-> <<>>]

\* Values of the variables a function does not use.
SubIdle == start_nodes = <<>> /\ end_nodes = <<>> /\ sub_graph_nodes = <<>> /\ d = <<>>
           /\ prev = [n \in Nodes |-> None]
BackIdle == start_node = None /\ op_names = <<>> /\ ret = <<>> /\ q = <<>> /\ node = None
DfsIdle == node_name = None /\ visited0 = {} /\ stack = <<>> /\ order = <<>>
TopoIdle == reverse = FALSE /\ nodes_without_inputs = <<>>
NbrIdle == depth = 0 /\ next_node_fn = "none" /\ dist = <<>> /\ deq = <<>>
PlainAttrs == attrs = [n \in Nodes |-> OpNode("Conv")]

\* --------------------------------------------------------------------- dfs
\* Index of the first element of names that is not in seen, 0 when there is none.
FirstUnvisited(names, seen) ==
    LET idx == {i \in 1..Len(names) : names[i] \notin seen}
    IN IF idx = {} THEN 0 ELSE CHOOSE i \in idx : \A j \in idx : i <= j

\* Mutant: the node is not put back on the stack when a child is found.
DfsIterNoParent(graph, s) ==
    LET name == Head(s.stack)
        seen == s.visited \cup {name}
        outs == out_edges(graph, name)
        i == FirstUnvisited(outs, seen)
    IN IF i # 0
       THEN [stack |-> <<outs[i]>> \o Tail(s.stack), visited |-> seen, order |-> s.order]
       ELSE [stack |-> Tail(s.stack), visited |-> seen, order |-> Append(s.order, name)]

\* Mutant: the node is appended when it is first taken, before its children.
DfsIterPreorder(graph, s) ==
    LET name == Head(s.stack)
        seen == s.visited \cup {name}
        outs == out_edges(graph, name)
        i == FirstUnvisited(outs, seen)
        ord == IF name \in Range(s.order) THEN s.order ELSE Append(s.order, name)
    IN IF i # 0
       THEN [stack |-> <<outs[i], name>> \o Tail(s.stack), visited |-> seen, order |-> ord]
       ELSE [stack |-> Tail(s.stack), visited |-> seen, order |-> ord]

\* Mutant: the node is appended every time it is taken, child found or not.
DfsIterAppendAlways(graph, s) ==
    LET name == Head(s.stack)
        seen == s.visited \cup {name}
        outs == out_edges(graph, name)
        i == FirstUnvisited(outs, seen)
    IN IF i # 0
       THEN [stack |-> <<outs[i], name>> \o Tail(s.stack), visited |-> seen,
             order |-> Append(s.order, name)]
       ELSE [stack |-> Tail(s.stack), visited |-> seen, order |-> Append(s.order, name)]

\* One iteration of the while loop of dfs on s = [stack, visited, order].
DfsIter(graph, s) ==
    LET name == Head(s.stack)
        seen == s.visited \cup {name}
        outs == out_edges(graph, name)
        i == FirstUnvisited(outs, seen)
    IN IF i # 0
       THEN [stack |-> <<outs[i], name>> \o Tail(s.stack), visited |-> seen, order |-> s.order]
       ELSE [stack |-> Tail(s.stack), visited |-> seen, order |-> Append(s.order, name)]

RECURSIVE DfsLoop(_, _)
DfsLoop(graph, s) == IF s.stack = <<>> THEN s ELSE DfsLoop(graph, DfsIter(graph, s))

\* dfs(graph, node_name, visited): the returned order and visited as left by the call.
dfs(graph, name, seen) ==
    LET s == DfsLoop(graph, [stack |-> <<name>>, visited |-> seen, order |-> <<>>])
    IN [order |-> s.order, visited |-> s.visited]

\* ------------------------------------------------- sub_graph_between_nodes
RECURSIVE VisitAll(_, _, _)
\* Enqueues every not yet visited node of names, discovered from cur.
VisitAll(names, cur, st) ==
    IF names = <<>> THEN st
    ELSE LET n == Head(names) IN
         VisitAll(Tail(names), cur,
                  IF n \in st.visited THEN st
                  ELSE [d |-> Append(st.d, n),
                        visited |-> st.visited \cup {n},
                        prev |-> [st.prev EXCEPT ![n] = cur]])

\* Mutant: the successors of an end node are followed too.
GrowForwardThroughEnds(graph, cur, ends, st) == VisitAll(out_edges(graph, cur), cur, st)

\* The successors of cur are followed unless cur is an end node.
GrowForward(graph, cur, ends, st) ==
    IF cur \notin Range(ends) THEN VisitAll(out_edges(graph, cur), cur, st) ELSE st

\* The predecessors of cur are followed unless cur is a start node.
GrowBackward(graph, cur, starts, st) ==
    IF cur \notin Range(starts) THEN VisitAll(in_edges(graph, cur), cur, st) ELSE st

RECURSIVE ForwardVisited(_, _, _)
\* forward_visited after dfs from every start node in turn.
ForwardVisited(graph, starts, seen) ==
    IF starts = <<>> THEN seen
    ELSE ForwardVisited(graph, Tail(starts), dfs(graph, Head(starts), seen).visited)

\* First element of names satisfying the test given as a set, None when there is none.
FirstIn(names, S) ==
    LET idx == {i \in 1..Len(names) : names[i] \in S}
    IN IF idx = {} THEN None ELSE names[CHOOSE i \in idx : \A j \in idx : i <= j]

\* Mutant: the kind attribute is read instead of op.
IsPlaceholderByKind(a, n) == a[n].kind = "Placeholder"

\* graph.node[node_name].get('op', '') == 'Placeholder'
IsPlaceholder(a, n) == a[n].op = "Placeholder"

InitSub ==
    /\ edges \in Graphs
    /\ attrs \in [Nodes -> {OpNode("Conv"), OpNode("Placeholder")}]
    /\ start_nodes \in StartLists
    /\ end_nodes \in EndLists
    /\ sub_graph_nodes = <<>>
    /\ visited = Range(start_nodes)
    /\ d = start_nodes
    /\ prev = [n \in Nodes |-> None]
    /\ pc = "grow"
    /\ result = NoResult
    /\ BackIdle /\ DfsIdle /\ TopoIdle /\ NbrIdle

\* One iteration of the growth loop.
GrowStep ==
    /\ pc = "grow"
    /\ d # <<>>
    /\ LET cur == Head(d)
           st0 == [d |-> Tail(d), visited |-> visited, prev |-> prev]
           st1 == GrowForward(edges, cur, end_nodes, st0)
           st2 == GrowBackward(edges, cur, start_nodes, st1)
       IN /\ sub_graph_nodes' = Append(sub_graph_nodes, cur)
          /\ d' = st2.d
          /\ visited' = st2.visited
          /\ prev' = st2.prev
    /\ UNCHANGED <<graphVars, pc, result, start_nodes, end_nodes,
                   backVars, dfsVars, topoVars, nbrVars>>

\* The growth loop ends; every end node must be forward reachable.
CheckReachable ==
    /\ pc = "grow"
    /\ d = <<>>
    /\ LET forward_visited == ForwardVisited(edges, start_nodes, {})
           bad == FirstIn(end_nodes, Nodes \ forward_visited)
       IN IF bad # None
          THEN pc' = "done" /\ result' = Raised("unreachable", bad)
          ELSE pc' = "boundary" /\ result' = result
    /\ UNCHANGED <<graphVars, visited, subVars, backVars, dfsVars, topoVars, nbrVars>>

\* The collected nodes must not contain a Placeholder.
CheckBoundary ==
    /\ pc = "boundary"
    /\ LET bad == FirstIn(sub_graph_nodes, {n \in Nodes : IsPlaceholder(attrs, n)})
       IN result' = IF bad # None THEN Raised("boundary", bad) ELSE Returned(sub_graph_nodes)
    /\ pc' = "done"
    /\ UNCHANGED <<graphVars, visited, subVars, backVars, dfsVars, topoVars, nbrVars>>

NextSub == GrowStep \/ CheckReachable \/ CheckBoundary

SpecSub == InitSub /\ [][NextSub]_vars

\* ------------------------------------------- sub_graph_between_nodes: claims
RECURSIVE ReachFrom(_, _)
\* Nodes reachable from S along directed paths (S included).
ReachFrom(graph, S) ==
    LET T == S \cup {e[2] : e \in {x \in Range(graph) : x[1] \in S}}
    IN IF T = S THEN S ELSE ReachFrom(graph, T)

Region == Range(sub_graph_nodes)
Starts == Range(start_nodes)
Ends == Range(end_nodes)
EdgeSet == Range(edges)
GrowthFinished == pc \in {"boundary", "done"}
UnreachableEnds == Ends \ ReachFrom(edges, Starts)
PlaceholdersInRegion == {n \in Region : attrs[n].op = "Placeholder"}

C2_Original ==
    (pc = "done" /\ PlaceholdersInRegion # {}) => result.error = "boundary"

\* C2 amended: a Placeholder among the collected nodes always makes the call
\* fail: with the unreachable-end-node error when some end node is unreachable
\* (that check runs first), otherwise with the boundary error naming a collected
\* Placeholder; a returned list never holds a Placeholder.
C2_PlaceholderFails ==
    pc = "done" =>
        /\ PlaceholdersInRegion # {} =>
              /\ result.status = "error"
              /\ UnreachableEnds # {} => result.error = "unreachable"
              /\ UnreachableEnds = {} =>
                    result.error = "boundary" /\ result.node \in PlaceholdersInRegion
        /\ result.status = "ok" =>
              /\ result.nodes = sub_graph_nodes
              /\ \A n \in Range(result.nodes) : attrs[n].op # "Placeholder"

\* C2 witness: two Placeholders are collected and the boundary error names
\* one that is not a start node.
C2_Witness ==
    /\ pc = "done" /\ result.error = "boundary"
    /\ result.node \notin Starts /\ Cardinality(PlaceholdersInRegion) = 2

Discovered(n) ==
    /\ prev[n] \in Region
    /\ \/ <<prev[n], n>> \in EdgeSet /\ prev[n] \notin Ends
       \/ <<n, prev[n]>> \in EdgeSet /\ prev[n] \notin Starts

C4_PredecessorClosed ==
    GrowthFinished => \A n \in Region : \A p \in Nodes : <<p, n>> \in EdgeSet => p \in Region

\* C10: a successful call returns every start node and every end node.
C10_ContainsStartsAndEnds ==
    (pc = "done" /\ result.status = "ok") => (Starts \cup Ends) \subseteq Range(result.nodes)

\* ---------------------------------------------- backward_bfs_for_operation
\* node.in_nodes(): the producers of node's inputs, indexed from 0 in the code.
in_nodes(graph, n) == in_edges(graph, n)

\* has_valid('op'): the attribute is present and not None.
has_valid_op(a, n) == a[n].op # "None"

\* Mutant: a data node is followed whatever its value.
ClassifyIgnoringValue(a, names, pnode) ==
    IF a[pnode].kind = "op"
    THEN IF has_valid_op(a, pnode) /\ a[pnode].op \in Range(names) THEN "match" ELSE "expand"
    ELSE IF a[pnode].kind = "data" THEN "expand" ELSE "skip"

\* What the loop body does with predecessor pnode: record it, enqueue it or drop it.
Classify(a, names, pnode) ==
    IF a[pnode].kind = "op"
    THEN IF has_valid_op(a, pnode) /\ a[pnode].op \in Range(names) THEN "match" ELSE "expand"
    ELSE IF a[pnode].kind = "data" /\ a[pnode].value = "None" THEN "expand" ELSE "skip"

RECURSIVE ScanInputs(_, _, _, _)
\* The for loop over the inputs of the dequeued node, on st = [ret, q].
ScanInputs(pnodes, a, names, st) ==
    IF pnodes = <<>> THEN st
    ELSE LET pnode == Head(pnodes)
             c == Classify(a, names, pnode)
         IN ScanInputs(Tail(pnodes), a, names,
                CASE c = "match" ->
                       IF pnode \notin Range(st.ret)
                       THEN [st EXCEPT !.ret = Append(st.ret, pnode)] ELSE st
                  [] c = "expand" -> [st EXCEPT !.q = Append(st.q, pnode)]
                  [] OTHER -> st)

NodeKinds == {OpNode("Conv"), OpNode("Relu"), DataNode("None"), DataNode("const")}

InitBack ==
    /\ edges \in Graphs
    /\ attrs \in [Nodes -> NodeKinds]
    /\ start_node \in Nodes
    /\ op_names \in {<<"Conv">>, <<"Relu", "Conv">>}
    /\ ret = <<>>
    /\ q = <<start_node>>
    /\ node = None
    /\ pc = "run"
    /\ result = NoResult
    /\ visited = {}
    /\ SubIdle /\ DfsIdle /\ TopoIdle /\ NbrIdle

\* The head of the queue is taken.
BackPop ==
    /\ pc = "run"
    /\ q # <<>>
    /\ node' = Head(q)
    /\ q' = Tail(q)
    /\ pc' = "scan"
    /\ UNCHANGED <<graphVars, result, visited, start_node, op_names, ret,
                   subVars, dfsVars, topoVars, nbrVars>>

\* ret and q after the for loop over the inputs of node.
BackScanned == ScanInputs(in_nodes(edges, node), attrs, op_names, [ret |-> ret, q |-> q])

\* The for loop over the inputs of node.
BackScan ==
    /\ pc = "scan"
    /\ Len(BackScanned.q) <= MaxQueue
    /\ ret' = BackScanned.ret
    /\ q' = BackScanned.q
    /\ pc' = "run"
    /\ UNCHANGED <<graphVars, result, visited, start_node, op_names, node,
                   subVars, dfsVars, topoVars, nbrVars>>

\* The queue would outgrow the model's bound: the run is abandoned.
BackOverflow ==
    /\ pc = "scan"
    /\ Len(BackScanned.q) > MaxQueue
    /\ pc' = "overflow"
    /\ UNCHANGED <<graphVars, result, visited, backVars, subVars, dfsVars, topoVars, nbrVars>>

\* The queue is empty: the matched nodes are returned.
BackReturn ==
    /\ pc = "run"
    /\ q = <<>>
    /\ pc' = "done"
    /\ result' = Returned(ret)
    /\ UNCHANGED <<graphVars, visited, backVars, subVars, dfsVars, topoVars, nbrVars>>

NextBack == BackPop \/ BackScan \/ BackOverflow \/ BackReturn

SpecBack == InitBack /\ [][NextBack]_vars

\* Operators and data nodes alternate: no edge joins two nodes of the same kind.
WellFormed(graph, a) == \A e \in Range(graph) : a[e[1]].kind # a[e[2]].kind

InitBackWellFormed == InitBack /\ WellFormed(edges, attrs)

\* The calls on well-formed graphs, whose loop runs on: no iteration is
\* postponed for ever.
SpecBackFair == InitBackWellFormed /\ [][NextBack]_vars /\ WF_vars(NextBack)

\* --------------------------------------- backward_bfs_for_operation: claims
Matching(n) == attrs[n].kind = "op" /\ attrs[n].op \in Range(op_names)
Transparent(n) ==
    \/ attrs[n].kind = "op" /\ attrs[n].op \notin Range(op_names)
    \/ attrs[n].kind = "data" /\ attrs[n].value = "None"
PredsOf(S) == {e[1] : e \in {x \in EdgeSet : x[2] \in S}}

RECURSIVE BackLayer(_)
\* Nodes at the end of a backward path of k edges from start_node whose
\* intermediate nodes are all transparent.
BackLayer(k) ==
    IF k = 0 THEN {start_node}
    ELSE IF k = 1 THEN PredsOf({start_node})
    ELSE PredsOf({n \in BackLayer(k - 1) : Transparent(n)})

BackFound == {p \in Nodes : Matching(p) /\ \E k \in 1..NumNodes : p \in BackLayer(k)}
BackDist(p) == CHOOSE k \in 1..NumNodes : p \in BackLayer(k) /\ \A j \in 1..(k - 1) : p \notin BackLayer(j)

C6_Terminates == <>(pc \in {"done", "overflow"})

\* --------------------------------------------------------------- dfs: run
InitDfs ==
    /\ edges \in Graphs
    /\ PlainAttrs
    /\ node_name \in Nodes
    /\ visited0 \in SUBSET Nodes
    /\ visited = visited0
    /\ stack = <<node_name>>
    /\ order = <<>>
    /\ pc = "run"
    /\ result = NoResult
    /\ SubIdle /\ BackIdle /\ TopoIdle /\ NbrIdle

\* One iteration of the while loop of dfs.
DfsStep ==
    /\ pc = "run"
    /\ stack # <<>>
    /\ LET s == DfsIter(edges, [stack |-> stack, visited |-> visited, order |-> order])
       IN stack' = s.stack /\ visited' = s.visited /\ order' = s.order
    /\ UNCHANGED <<graphVars, pc, result, node_name, visited0,
                   subVars, backVars, topoVars, nbrVars>>

\* The stack is empty: order is returned.
DfsReturn ==
    /\ pc = "run"
    /\ stack = <<>>
    /\ pc' = "done"
    /\ result' = Returned(order)
    /\ UNCHANGED <<graphVars, visited, dfsVars, subVars, backVars, topoVars, nbrVars>>

NextDfs == DfsStep \/ DfsReturn

SpecDfs == InitDfs /\ [][NextDfs]_vars

\* ------------------------------------------------------------- dfs: claims
\* Position of the first occurrence of x in seq, 0 when x does not occur.
Pos(seq, x) ==
    LET idx == {i \in 1..Len(seq) : seq[i] = x}
    IN IF idx = {} THEN 0 ELSE CHOOSE i \in idx : \A j \in idx : i <= j

SuccsOf(S) == {e[2] : e \in {x \in EdgeSet : x[1] \in S}}
Acyclic == \A n \in Nodes : n \notin ReachFrom(edges, SuccsOf({n}))

\* C9 as stated: every returned node comes after all of its successors that
\* were not visited when dfs was called (taken only for successors other than
\* the node itself).
C9_Original ==
    pc = "done" =>
        \A x \in Range(result.nodes) : \A s \in SuccsOf({x}) \ (visited0 \cup {x}) :
            Pos(result.nodes, s) # 0 /\ Pos(result.nodes, s) < Pos(result.nodes, x)

\* C9 amended: every returned node x comes after each of its successors s that
\* was not visited when dfs was called, unless x is reachable from s (the edge
\* from x to s lies on a cycle); on an acyclic graph this is every such
\* successor.
C9_Postorder ==
    pc = "done" =>
        \A x \in Range(result.nodes) : \A s \in SuccsOf({x}) \ visited0 :
            x \notin ReachFrom(edges, {s}) =>
                Pos(result.nodes, s) # 0 /\ Pos(result.nodes, s) < Pos(result.nodes, x)

\* C9 witness: three nodes are returned from a call on an acyclic graph with
\* a non-empty visited set, one of them with two successors that were not
\* visited.
C9_Witness ==
    /\ pc = "done" /\ Len(result.nodes) = 3 /\ visited0 # {}
    /\ Acyclic
    /\ \E x \in Range(result.nodes) : Cardinality(SuccsOf({x}) \ visited0) = 2

\* -------------------------------------------------- pseudo_topological_sort
Reverse(seq) == [i \in 1..Len(seq) |-> seq[Len(seq) + 1 - i]]

NoInputs(graph) == {n \in Nodes : \A e \in Range(graph) : e[2] # n}

InitTopo ==
    /\ edges \in Graphs
    /\ PlainAttrs
    /\ reverse \in BOOLEAN
    \* the nodes without inputs, in any order graph.nodes() can list them
    /\ nodes_without_inputs \in OrderingsOf(NoInputs(edges))
    /\ order = <<>>
    /\ visited = {}
    /\ pc = "run"
    /\ result = NoResult
    /\ node_name = None /\ visited0 = {} /\ stack = <<>>
    /\ SubIdle /\ BackIdle /\ NbrIdle

\* One iteration of the loop over nodes_without_inputs (the variable holds the
\* part of the list the loop has yet to visit).
TopoVisit ==
    /\ pc = "run"
    /\ nodes_without_inputs # <<>>
    /\ LET name == Head(nodes_without_inputs)
           r == dfs(edges, name, visited)
       IN IF name \notin visited
          THEN order' = order \o r.order /\ visited' = r.visited
          ELSE UNCHANGED <<order, visited>>
    /\ nodes_without_inputs' = Tail(nodes_without_inputs)
    /\ UNCHANGED <<graphVars, pc, result, reverse, node_name, visited0, stack,
                   subVars, backVars, nbrVars>>

\* The loop is over: order is returned, reversed unless reverse is set.
TopoReturn ==
    /\ pc = "run"
    /\ nodes_without_inputs = <<>>
    /\ pc' = "done"
    /\ result' = Returned(IF reverse THEN order ELSE Reverse(order))
    /\ UNCHANGED <<graphVars, visited, dfsVars, topoVars, subVars, backVars, nbrVars>>

NextTopo == TopoVisit \/ TopoReturn

SpecTopo == InitTopo /\ [][NextTopo]_vars

\* ------------------------------------------ pseudo_topological_sort: claims
EachNodeOnce(seq) == Len(seq) = NumNodes /\ Range(seq) = Nodes

\* C7: on an acyclic graph the result holds every node exactly once and, with
\* reverse = False, every edge goes from an earlier to a later node; with
\* reverse = True every edge goes from a later to an earlier node.
C7_TopologicalOrder ==
    (pc = "done" /\ Acyclic) =>
        /\ EachNodeOnce(result.nodes)
        /\ \A e \in EdgeSet :
              IF reverse THEN Pos(result.nodes, e[2]) < Pos(result.nodes, e[1])
              ELSE Pos(result.nodes, e[1]) < Pos(result.nodes, e[2])

\* C7 witness: an acyclic graph with three different edges (so with a node
\* that has two inputs) is sorted, not reversed.
C7_Witness ==
    /\ pc = "done" /\ Acyclic /\ ~reverse
    /\ Cardinality(EdgeSet) = 3
    /\ Len(result.nodes) = NumNodes

\* -------------------------------------------------------- node_neighbourhood
\* dist is a dict: a list of <<key, value>> in insertion order.
DictKeys(dct) == [i \in 1..Len(dct) |-> dct[i][1]]
DictHas(dct, k) == \E i \in 1..Len(dct) : dct[i][1] = k
DictGet(dct, k) == dct[CHOOSE i \in 1..Len(dct) : dct[i][1] = k][2]
DictSet(dct, k, v) ==
    IF DictHas(dct, k)
    THEN [i \in 1..Len(dct) |-> IF dct[i][1] = k THEN <<k, v>> ELSE dct[i]]
    ELSE Append(dct, <<k, v>>)
\* dct after dct.setdefault(k, v)
DictSetDefault(dct, k, v) == IF DictHas(dct, k) THEN dct ELSE Append(dct, <<k, v>>)

\* next_node_fn of node_incoming_neighbourhood and node_outcoming_neighbourhood.
NextNodes(fn, graph, name) == IF fn = "in" THEN in_edges(graph, name) ELSE out_edges(graph, name)

\* Mutant: off by one.
MayExpandInclusive(cur_dist, dep) == cur_dist <= dep

\* The test that lets a dequeued node be expanded.
MayExpand(cur_dist, dep) == cur_dist < dep

RECURSIVE Relax(_, _, _, _)
\* The for loop over the neighbours of the dequeued node, on st = [dist, deq].
Relax(names, cur_dist, dep, st) ==
    IF names = <<>> THEN st
    ELSE LET n == Head(names)
             d1 == DictSetDefault(st.dist, n, dep + 1)
             next_dist == DictGet(d1, n)
         IN Relax(Tail(names), cur_dist, dep,
                  IF next_dist > cur_dist + 1
                  THEN [dist |-> DictSet(d1, n, cur_dist + 1), deq |-> Append(st.deq, n)]
                  ELSE [dist |-> d1, deq |-> st.deq])

\* One iteration of the while loop on st = [dist, deq].
NbrIter(graph, fn, dep, st) ==
    LET cur_node_name == Head(st.deq)
        cur_dist == DictGet(st.dist, cur_node_name)
        st0 == [dist |-> st.dist, deq |-> Tail(st.deq)]
    IN IF MayExpand(cur_dist, dep)
       THEN Relax(NextNodes(fn, graph, cur_node_name), cur_dist, dep, st0)
       ELSE st0

RECURSIVE NbrLoop(_, _, _, _)
NbrLoop(graph, fn, dep, st) ==
    IF st.deq = <<>> THEN st ELSE NbrLoop(graph, fn, dep, NbrIter(graph, fn, dep, st))

\* node_neighbourhood(node_name, depth, next_node_fn) as one evaluation.
node_neighbourhood(graph, name, dep, fn) ==
    DictKeys(NbrLoop(graph, fn, dep, [dist |-> <<<<name, 0>>>>, deq |-> <<name>>]).dist)

InitNbr ==
    /\ edges \in Graphs
    /\ PlainAttrs
    /\ node_name \in Nodes
    /\ depth \in 0..MaxDepth
    /\ next_node_fn \in {"in", "out"}
    /\ dist = <<<<node_name, 0>>>>
    /\ deq = <<node_name>>
    /\ pc = "run"
    /\ result = NoResult
    /\ visited = {}
    /\ visited0 = {} /\ stack = <<>> /\ order = <<>>
    /\ SubIdle /\ BackIdle /\ TopoIdle

\* One iteration of the while loop.
NbrStep ==
    /\ pc = "run"
    /\ deq # <<>>
    /\ LET st1 == NbrIter(edges, next_node_fn, depth, [dist |-> dist, deq |-> deq])
       IN dist' = st1.dist /\ deq' = st1.deq
    /\ UNCHANGED <<graphVars, pc, result, visited, node_name, visited0, stack, order,
                   depth, next_node_fn, subVars, backVars, topoVars>>

\* The queue is empty: the keys of dist are returned.
NbrReturn ==
    /\ pc = "run"
    /\ deq = <<>>
    /\ pc' = "done"
    /\ result' = Returned(DictKeys(dist))
    /\ UNCHANGED <<graphVars, visited, dfsVars, nbrVars, subVars, backVars, topoVars>>

NextNbr == NbrStep \/ NbrReturn

SpecNbr == InitNbr /\ [][NextNbr]_vars

\* ------------------------------------------------ node_neighbourhood: claims
Neighbours(S) == IF next_node_fn = "in" THEN PredsOf(S) ELSE SuccsOf(S)

RECURSIVE Ball(_)
\* Nodes at most k hops from node_name.
Ball(k) == IF k = 0 THEN {node_name} ELSE Ball(k - 1) \cup Neighbours(Ball(k - 1))

\* C8: the call returns, without duplicates, exactly the nodes at most depth
\* hops from node_name: node_name alone for depth 0, and a subset of what one
\* more hop gives.
C8_Neighbourhood ==
    pc = "done" =>
        /\ Range(result.nodes) = Ball(depth)
        /\ Len(result.nodes) = Cardinality(Ball(depth))
        /\ depth = 0 => result.nodes = <<node_name>>
        /\ Range(result.nodes) \subseteq
              Range(node_neighbourhood(edges, node_name, depth + 1, next_node_fn))

\* C8 witness: with depth 1 a node one hop away is returned and a node two
\* hops away is not.
C8_Witness ==
    /\ pc = "done" /\ depth = 1
    /\ Ball(1) # Ball(0) /\ Ball(2) # Ball(1)
    /\ Len(result.nodes) = 2

====
